---- MODULE Spec2Model ----
(***************************************************************************)
(* A model of deploy_config_generator: the driving loop of __main__.main,  *)
(* the Jinja2-based Template class (finalize, type_fixup, render_template, *)
(* evaluate_condition, the output_* filters) and the list-building helpers *)
(* of the Marathon output plugin.                                          *)
(*                                                                         *)
(* The driving loop is a state machine (Spec).  The template engine and    *)
(* the plugin helpers are pure functions of their arguments; they are      *)
(* operators, applied by the actions of SpecRender, SpecFixup, SpecFetch   *)
(* and SpecPorts to inputs drawn from bounded sets.                        *)
(***************************************************************************)
EXTENDS Integers, Sequences, FiniteSets, TLC

VARIABLES
    deploy_config,  \* main: the parsed deploy config, a sequence of applications
    pc,             \* main: position in the driving loop / phase of a call
    app_idx,        \* main: 1-based index of the application being processed
    plugin_idx,     \* main: 1-based index of the plugin in app_render_output's loop
    events,         \* main: what was displayed and which plugin methods ran, in order
    exit_status,    \* main: the process's exit status once it has ended, else -1
    call,           \* function specs: the arguments of the call
    ret             \* function specs: what the call returned or raised

vars == <<deploy_config, pc, app_idx, plugin_idx, events, exit_status, call, ret>>

mainVars == <<deploy_config, pc, app_idx, plugin_idx, events, exit_status>>

None == [t |-> "none", v |-> 0]

(***************************************************************************)
(* Bounds.                                                                 *)
(***************************************************************************)
MaxApps == 2

(***************************************************************************)
(* __main__.py : the driving loop                                          *)
(***************************************************************************)

\* load_output_plugins: pkgutil.iter_modules yields the modules of the output
\* package in name order; each loaded module contributes one plugin instance.
output_plugins == <<"dummy", "marathon">>

\* The field names the dummy plugin's DEFAULT_CONFIG declares.
DummyFields == {"name", "dummy"}

\* The field names the marathon plugin's DEFAULT_CONFIG declares.
MarathonFields ==
    {"id", "image", "cpus", "mem", "disk", "instances", "constraints",
     "ports", "env", "health_checks", "labels", "container_labels",
     "fetch", "upgrade_strategy", "unreachable_strategy"}

PluginFields(plugin) ==
    IF plugin = "dummy" THEN DummyFields ELSE MarathonFields

\* OutputPluginBase.has_field: the field is declared by the plugin's schema.
has_field(plugin, field) == field \in PluginFields(plugin)

\* OutputPluginBase.is_needed: the participation test.  It is a pure function
\* of the plugin and the descriptor; the descriptor carries its value.
is_needed(plugin, app) == plugin \in app.needed

\* OutputPluginBase.generate raises ConfigGenerationError, or returns.
generate_raises(plugin, app) == plugin \in app.raises

\* The descriptors the deploy config is drawn from: the ordered field names
\* of the mapping, the plugins whose is_needed is true for it, and the plugins
\* whose generate raises ConfigGenerationError for it.
AppFieldLists ==
    { <<"name">>, <<"id">>, <<"name", "id">>, <<"name", "bogus_field">> }

PluginSet == { output_plugins[i] : i \in DOMAIN output_plugins }

Apps ==
    { [fields |-> f, needed |-> n, raises |-> r] :
        f \in AppFieldLists, n \in SUBSET PluginSet, r \in SUBSET PluginSet }

AppsInput == { a \in Apps : a.raises \subseteq a.needed }

SeqsUpTo(S, n) == UNION { [1..k -> S] : k \in 1..n }

\* app_validate_fields, the inner loop: some plugin both declares the field
\* and is needed for the application.
valid_field(app, field) ==
    \E i \in DOMAIN output_plugins :
        has_field(output_plugins[i], field) /\ is_needed(output_plugins[i], app)

\* The positions of the fields of app that are not valid.
InvalidPositions(app) ==
    { k \in DOMAIN app.fields : ~valid_field(app, app.fields[k]) }

Min(S) == CHOOSE m \in S : \A x \in S : m <= x

Event(ev, app, who) == [ev |-> ev, app |-> app, who |-> who]

MainInit ==
    /\ deploy_config \in SeqsUpTo(AppsInput, MaxApps)
    /\ pc = "validate"
    /\ app_idx = 1
    /\ plugin_idx = 1
    /\ events = <<>>
    /\ exit_status = -1
    /\ call = None
    /\ ret = None

\* app_validate_fields(app, app_idx, output_plugins): the first field that is
\* not valid raises DeployConfigError, which is caught and displayed; the
\* function returns nothing either way.
app_validate_fields ==
    /\ pc = "validate"
    /\ LET app == deploy_config[app_idx]
           bad == InvalidPositions(app)
       IN  events' =
             IF bad = {}
             THEN Append(events, Event("validated", app_idx, "-"))
             ELSE Append(events,
                         Event("deploy_config_error", app_idx, app.fields[Min(bad)]))
    /\ pc' = "render"
    /\ plugin_idx' = 1
    /\ UNCHANGED <<deploy_config, app_idx, exit_status, call, ret>>

\* After app_render_output returns, main's for loop takes the next application,
\* or ends.
NextApp ==
    /\ app_idx' = app_idx + 1
    /\ plugin_idx' = 1
    /\ pc' = IF app_idx + 1 <= Len(deploy_config) THEN "validate" ELSE "return"

\* app_render_output, one iteration whose plugin is not needed.
render_skip ==
    /\ pc = "render"
    /\ plugin_idx <= Len(output_plugins)
    /\ ~is_needed(output_plugins[plugin_idx], deploy_config[app_idx])
    /\ events' = Append(events, Event("is_needed_false", app_idx, output_plugins[plugin_idx]))
    /\ plugin_idx' = plugin_idx + 1
    /\ UNCHANGED <<deploy_config, pc, app_idx, exit_status, call, ret>>

\* A faulty iteration: generate is called before the participation test.
render_generate_untested ==
    /\ pc = "render"
    /\ plugin_idx <= Len(output_plugins)
    /\ is_needed(output_plugins[plugin_idx], deploy_config[app_idx])
    /\ ~generate_raises(output_plugins[plugin_idx], deploy_config[app_idx])
    /\ events' = events \o
          << Event("generate", app_idx, output_plugins[plugin_idx]),
             Event("is_needed_true", app_idx, output_plugins[plugin_idx]) >>
    /\ plugin_idx' = plugin_idx + 1
    /\ UNCHANGED <<deploy_config, pc, app_idx, exit_status, call, ret>>

\* app_render_output, one iteration whose plugin is needed and generates.
render_generate ==
    /\ pc = "render"
    /\ plugin_idx <= Len(output_plugins)
    /\ is_needed(output_plugins[plugin_idx], deploy_config[app_idx])
    /\ ~generate_raises(output_plugins[plugin_idx], deploy_config[app_idx])
    /\ events' = events \o
          << Event("is_needed_true", app_idx, output_plugins[plugin_idx]),
             Event("generate", app_idx, output_plugins[plugin_idx]) >>
    /\ plugin_idx' = plugin_idx + 1
    /\ UNCHANGED <<deploy_config, pc, app_idx, exit_status, call, ret>>

\* app_render_output, one iteration whose plugin's generate raises
\* ConfigGenerationError: the try encloses the whole for loop, so the handler
\* displays the error and the function returns.
render_raise ==
    /\ pc = "render"
    /\ plugin_idx <= Len(output_plugins)
    /\ is_needed(output_plugins[plugin_idx], deploy_config[app_idx])
    /\ generate_raises(output_plugins[plugin_idx], deploy_config[app_idx])
    /\ events' = events \o
          << Event("is_needed_true", app_idx, output_plugins[plugin_idx]),
             Event("generate", app_idx, output_plugins[plugin_idx]),
             Event("generation_error", app_idx, output_plugins[plugin_idx]) >>
    /\ NextApp
    /\ UNCHANGED <<deploy_config, exit_status, call, ret>>

\* app_render_output, the for loop is exhausted.
render_done ==
    /\ pc = "render"
    /\ plugin_idx > Len(output_plugins)
    /\ NextApp
    /\ UNCHANGED <<deploy_config, events, exit_status, call, ret>>

\* main returns after the loop; nothing calls sys.exit, so the interpreter
\* ends the process with status 0.
main_return ==
    /\ pc = "return"
    /\ pc' = "exited"
    /\ exit_status' = 0
    /\ UNCHANGED <<deploy_config, app_idx, plugin_idx, events, call, ret>>

Next ==
    \/ app_validate_fields
    \/ render_skip
    \/ render_generate
    \/ render_raise
    \/ render_done
    \/ main_return

Spec == MainInit /\ [][Next]_vars

(***************************************************************************)
(* template.py : values and strings                                        *)
(*                                                                         *)
(* A value is a record [t, v]: t is the Python type and v the payload.     *)
(*   "str"   v is a sequence of items; an item [k |-> "c", s |-> ch] is    *)
(*           the character ch, [k |-> "text", s |-> w] the literal text w, *)
(*           any other item is one parsed template expression, {{ ... }},  *)
(*           written in the text                                           *)
(*   "int"   v is the integer                                              *)
(*   "float" v is <<m, e>>, the decimal m / 10^e, normalised               *)
(*   "bool"  v is TRUE or FALSE                                            *)
(*   "list"  v is the sequence of element values                           *)
(*   "dict"  v is the sequence of [key, val] entries, in insertion order   *)
(*   "undefined" jinja2.Undefined, "none" None                             *)
(***************************************************************************)
Ch(c) == [k |-> "c", s |-> c]

Chars(seq) == [i \in DOMAIN seq |-> Ch(seq[i])]

StrV(items) == [t |-> "str", v |-> items]

IntV(n) == [t |-> "int", v |-> n]

BoolV(b) == [t |-> "bool", v |-> b]

Undefined == [t |-> "undefined", v |-> 0]

RECURSIVE Pow10(_)
Pow10(e) == IF e = 0 THEN 1 ELSE 10 * Pow10(e - 1)

\* The decimal m / 10^e without trailing fractional zeros.
RECURSIVE Normalise(_, _)
Normalise(m, e) ==
    IF e > 0 /\ m % 10 = 0 THEN Normalise(m \div 10, e - 1) ELSE <<m, e>>

FloatV(m, e) == [t |-> "float", v |-> Normalise(m, e)]

IsStr(value) == value.t = "str"

\* A stretch of literal text taken whole (no template syntax in it).
Text(s) == [k |-> "text", s |-> s]

IsLiteral(item) == item.k = "c" \/ item.k = "text"

\* '{{' in value or '{%' in value
HasTemplate(items) == \E i \in DOMAIN items : ~IsLiteral(items[i])

US == <<"_", "_">>

\* OMIT_TOKEN = '__OMIT__TOKEN__'
OMIT_TOKEN ==
    StrV(Chars(US \o <<"O", "M", "I", "T">> \o US \o <<"T", "O", "K", "E", "N">> \o US))

DigitChars == <<"0", "1", "2", "3", "4", "5", "6", "7", "8", "9">>

IsDigit(item) == item.k = "c" /\ \E d \in DOMAIN DigitChars : DigitChars[d] = item.s

DigitVal(item) == (CHOOSE d \in DOMAIN DigitChars : DigitChars[d] = item.s) - 1

LowerLetters ==
    {"a", "b", "c", "d", "e", "f", "g", "h", "i", "j", "k", "l", "m",
     "n", "o", "p", "q", "r", "s", "t", "u", "v", "w", "x", "y", "z"}

\* str.lower() on the letters the model's texts are written with.
LowerChar(c) ==
    CASE c = "T" -> "t" [] c = "R" -> "r" [] c = "U" -> "u" [] c = "E" -> "e"
      [] c = "F" -> "f" [] c = "A" -> "a" [] c = "L" -> "l" [] c = "S" -> "s"
      [] c = "O" -> "o" [] c = "M" -> "m" [] c = "I" -> "i" [] c = "K" -> "k"
      [] c = "N" -> "n" [] OTHER -> c

Lower(items) ==
    [i \in DOMAIN items |->
        IF items[i].k = "c" THEN Ch(LowerChar(items[i].s)) ELSE items[i]]

\* str(n) of a non-negative int.
RECURSIVE Digits(_)
Digits(n) ==
    IF n < 10 THEN <<DigitChars[n + 1]>>
    ELSE Digits(n \div 10) \o <<DigitChars[(n % 10) + 1]>>

\* str(n) of an int.
IntToChars(n) == IF n < 0 THEN <<"-">> \o Digits(-n) ELSE Digits(n)

\* The e digits of the fraction f, zero-padded on the left.
RECURSIVE FracDigits(_, _)
FracDigits(f, e) ==
    IF e = 0 THEN <<>>
    ELSE FracDigits(f \div 10, e - 1) \o <<DigitChars[(f % 10) + 1]>>

\* str(x) of a float m / 10^e: repr gives the shortest decimal that reads
\* back as x, with ".0" for an integral value.
FloatToChars(me) ==
    LET m == me[1]
        e == me[2]
        a == IF m < 0 THEN -m ELSE m
        sign == IF m < 0 THEN <<"-">> ELSE <<>>
    IN  IF e = 0
        THEN sign \o Digits(a) \o <<".", "0">>
        ELSE sign \o Digits(a \div Pow10(e)) \o <<".">> \o FracDigits(a % Pow10(e), e)

\* str(value), as the output_* filters and the template output apply it.
ToStr(value) ==
    CASE value.t = "str" -> value.v
      [] value.t = "int" -> Chars(IntToChars(value.v))
      [] value.t = "float" -> Chars(FloatToChars(value.v))
      [] value.t = "bool" ->
            Chars(IF value.v THEN <<"T", "r", "u", "e">> ELSE <<"F", "a", "l", "s", "e">>)
      [] value.t = "undefined" -> <<>>
      [] OTHER -> Chars(<<"N", "o", "n", "e">>)

(***************************************************************************)
(* template.py : the output_* filters and type_fixup                       *)
(***************************************************************************)
TypeName(t) ==
    CASE t = "int" -> <<"i", "n", "t">>
      [] t = "float" -> <<"f", "l", "o", "a", "t">>
      [] t = "bool" -> <<"b", "o", "o", "l">>
      [] OTHER -> <<"f", "o", "o">>

\* '__<type>__'
Mark(t) == Chars(US \o TypeName(t) \o US)

filter_output_int(arg) == StrV(Mark("int") \o ToStr(arg) \o Mark("int"))

filter_output_float(arg) == StrV(Mark("float") \o ToStr(arg) \o Mark("float"))

filter_output_bool(arg) == StrV(Mark("bool") \o ToStr(arg) \o Mark("bool"))

\* What a call gives: a returned value, or the exception it raised.
Ok(value) == [err |-> "", val |-> value]

Raise(err) == [err |-> err, val |-> None]

IsLowerAt(items, i) ==
    i \in DOMAIN items /\ items[i].k = "c" /\ items[i].s \in LowerLetters

IsCharAt(items, i, c) == i \in DOMAIN items /\ items[i] = Ch(c)

\* The length of the longest run of [a-z] that starts at position 3.
TypeRun(items) ==
    CHOOSE n \in 0..Len(items) :
        /\ \A j \in 3..(2 + n) : IsLowerAt(items, j)
        /\ ~IsLowerAt(items, 3 + n)

\* re.match(r'^__(?P<type>[a-z]+)__(.*)__(?P=type)__$', value): '$' matches at
\* the end and before one trailing newline, '.' matches all but a newline.
\* [a-z]+ can only be the whole run of letters after the leading '__', since
\* '__' must follow it; the payload is what lies between header and footer.
MarkerMatch(items) ==
    LET body == IF IsCharAt(items, Len(items), "\n")
                THEN SubSeq(items, 1, Len(items) - 1)
                ELSE items
        n == TypeRun(body)
        L == Len(body)
        header == SubSeq(body, 1, n + 4)
        footer == SubSeq(body, L - n - 3, L)
        payload == SubSeq(body, n + 5, L - n - 4)
        type == SubSeq(body, 3, n + 2)
    IN  IF /\ n >= 1
           /\ L >= 2 * (n + 4)
           /\ header = Chars(US) \o type \o Chars(US)
           /\ footer = header
           /\ \A i \in DOMAIN payload : payload[i] # Ch("\n")
        THEN [matched |-> TRUE, type |-> type, payload |-> payload]
        ELSE [matched |-> FALSE, type |-> <<>>, payload |-> <<>>]

IsSign(item) == item = Ch("-") \/ item = Ch("+")

\* The value of a sequence of digits.
RECURSIVE DigitsVal(_)
DigitsVal(items) ==
    IF items = <<>> THEN 0
    ELSE 10 * DigitsVal(SubSeq(items, 1, Len(items) - 1)) + DigitVal(items[Len(items)])

AllDigits(items) == \A i \in DOMAIN items : IsDigit(items[i])

Unsigned(items) ==
    IF items # <<>> /\ IsSign(items[1]) THEN SubSeq(items, 2, Len(items)) ELSE items

SignOf(items) == IF items # <<>> /\ items[1] = Ch("-") THEN -1 ELSE 1

\* int(text): an optional sign and decimal digits, else ValueError.
ParseInt(items) ==
    LET u == Unsigned(items)
    IN  IF u # <<>> /\ AllDigits(u)
        THEN Ok(IntV(SignOf(items) * DigitsVal(u)))
        ELSE Raise("ValueError")

\* float(text): an optional sign, digits with an optional '.' and fraction, or
\* '.' and a fraction; else ValueError.
ParseFloat(items) ==
    LET u == Unsigned(items)
        dots == { i \in DOMAIN u : u[i] = Ch(".") }
        dot == IF dots = {} THEN Len(u) + 1 ELSE Min(dots)
        ip == SubSeq(u, 1, dot - 1)
        fp == SubSeq(u, dot + 1, Len(u))
    IN  IF /\ Cardinality(dots) <= 1
           /\ AllDigits(ip) /\ AllDigits(fp)
           /\ ip \o fp # <<>>
        THEN Ok(FloatV(SignOf(items) * DigitsVal(ip \o fp), Len(fp)))
        ELSE Raise("ValueError")

\* Template.type_fixup(value)
\* A faulty type_fixup: the bool payload is compared without lower-casing.
type_fixup_case_sensitive(value) ==
    IF IsStr(value)
    THEN LET matches == MarkerMatch(value.v)
         IN  IF matches.matched
             THEN CASE matches.type = Chars(TypeName("int")) -> ParseInt(matches.payload)
                    [] matches.type = Chars(TypeName("float")) -> ParseFloat(matches.payload)
                    [] matches.type = Chars(TypeName("bool")) ->
                          Ok(BoolV(matches.payload = Chars(<<"t", "r", "u", "e">>)))
                    [] OTHER -> Ok(value)
             ELSE Ok(value)
    ELSE Ok(value)

type_fixup(value) ==
    IF IsStr(value)
    THEN LET matches == MarkerMatch(value.v)
         IN  IF matches.matched
             THEN CASE matches.type = Chars(TypeName("int")) -> ParseInt(matches.payload)
                    [] matches.type = Chars(TypeName("float")) -> ParseFloat(matches.payload)
                    [] matches.type = Chars(TypeName("bool")) ->
                          Ok(BoolV(Lower(matches.payload) = Chars(<<"t", "r", "u", "e">>)))
                    [] OTHER -> Ok(value)
             ELSE Ok(value)
    ELSE Ok(value)

(***************************************************************************)
(* template.py : the Jinja2 environment of Template.__init__, finalize and *)
(* render_template                                                         *)
(*                                                                         *)
(* The expressions the model's templates are written with:                 *)
(*   [k |-> "var", s |-> X]            {{ X }}                             *)
(*   [k |-> "omit", s |-> ""]          {{ omit }}                          *)
(*   [k |-> "default_omit", s |-> X]   {{ X | default(omit) }}             *)
(*   [k |-> "output_int", s |-> X]     {{ X | output_int }}                *)
(*   [k |-> "output_float", s |-> X]   {{ X | output_float }}              *)
(*   [k |-> "output_bool", s |-> X]    {{ X | output_bool }}               *)
(* A scope (args) is a function from the names it binds to their values.   *)
(***************************************************************************)

\* The depth of nested Template.render calls at which the interpreter gives
\* up with RecursionError; the code sets no limit of its own.
RecursionLimit == 3

Expr(k, name) == [k |-> k, s |-> name]

\* Name lookup in the context: the Environment is built without `undefined=`,
\* so a name bound nowhere evaluates to jinja2.Undefined.
Resolve(name, args) == IF name \in DOMAIN args THEN args[name] ELSE Undefined

\* filter_default(arg, default)
filter_default(arg, default) ==
    IF arg.t = "none" \/ arg.t = "undefined" THEN default ELSE arg

\* The value of one {{ ... }} expression, before finalize.
EvalExpr(item, args) ==
    CASE item.k = "var" -> Resolve(item.s, args)
      [] item.k = "omit" -> OMIT_TOKEN
      [] item.k = "default_omit" -> filter_default(Resolve(item.s, args), OMIT_TOKEN)
      [] item.k = "output_int" -> filter_output_int(Resolve(item.s, args))
      [] item.k = "output_float" -> filter_output_float(Resolve(item.s, args))
      [] OTHER -> filter_output_bool(Resolve(item.s, args))

RECURSIVE RenderFrom(_, _, _, _)
RECURSIVE finalize(_, _, _)

\* A faulty finalize: the value of an expression is never rendered again.
finalize_once(value, args, depth) ==
    Ok(ToStr(value))

\* Template.finalize(context, value), followed by the conversion to text of
\* what it returns: a string holding template syntax is rendered with the
\* same context, one Python call level deeper.
finalize(value, args, depth) ==
    IF IsStr(value) /\ HasTemplate(value.v)
    THEN RenderFrom(value.v, 1, args, depth + 1)
    ELSE Ok(ToStr(value))

\* The text of two renderings in a row; the first exception stands.
Cat(head, rest) ==
    IF head.err # "" THEN head
    ELSE IF rest.err # "" THEN rest
    ELSE Ok(head.val \o rest.val)

\* environment.from_string(items).render(args), from item i on: the text of
\* the characters and of the finalized expressions, concatenated.
RenderFrom(items, i, args, depth) ==
    IF depth > RecursionLimit THEN Raise("RecursionError")
    ELSE IF i > Len(items) THEN Ok(<<>>)
    ELSE Cat(IF IsLiteral(items[i])
             THEN Ok(<<items[i]>>)
             ELSE finalize(EvalExpr(items[i], args), args, depth),
             RenderFrom(items, i + 1, args, depth))

\* The str the rendering returns.
AsStr(r) == IF r.err # "" THEN r ELSE Ok(StrV(r.val))

\* self._env.from_string(template).render(**args)
RenderString(items, args) == AsStr(RenderFrom(items, 1, args, 1))

\* v == OMIT_TOKEN
IsOmit(value) == IsStr(value) /\ value.v = OMIT_TOKEN.v

\* self.type_fixup(<rendered>), when the rendering returned.
FixupOf(r) == IF r.err # "" THEN r ELSE type_fixup(r.val)

\* ret[k] = <fixed>, ahead of the entries the rest of the loop sets.
PutFirst(key, fixed, rest) ==
    IF fixed.err # "" THEN fixed
    ELSE IF rest.err # "" THEN rest
    ELSE Ok(<<[key |-> key, val |-> fixed.val]>> \o rest.val)

\* ret.append(<fixed>), ahead of the elements the rest of the loop appends.
AppendFirst(fixed, rest) ==
    IF fixed.err # "" THEN fixed
    ELSE IF rest.err # "" THEN rest
    ELSE Ok(<<fixed.val>> \o rest.val)

\* The container the loop built.
AsContainer(t, r) == IF r.err # "" THEN r ELSE Ok([t |-> t, v |-> r.val])

RECURSIVE render_template(_, _)
RECURSIVE RenderEntries(_, _, _)
RECURSIVE RenderElements(_, _, _)

\* The dict branch of render_template, entries i.. of the mapping.
RenderEntries(entries, i, args) ==
    IF i > Len(entries) THEN Ok(<<>>)
    ELSE IF IsOmit(entries[i].val) THEN RenderEntries(entries, i + 1, args)
    ELSE PutFirst(entries[i].key,
                  FixupOf(render_template(entries[i].val, args)),
                  RenderEntries(entries, i + 1, args))

\* The list branch of render_template, elements i.. of the sequence.
RenderElements(elements, i, args) ==
    IF i > Len(elements) THEN Ok(<<>>)
    ELSE IF IsOmit(elements[i]) THEN RenderElements(elements, i + 1, args)
    ELSE AppendFirst(FixupOf(render_template(elements[i], args)),
                     RenderElements(elements, i + 1, args))

\* Template.render_template(template, args)
render_template(template, args) ==
    CASE template.t = "dict" -> AsContainer("dict", RenderEntries(template.v, 1, args))
      [] template.t = "list" -> AsContainer("list", RenderElements(template.v, 1, args))
      [] template.t = "str" -> RenderString(template.v, args)
      [] OTHER -> Ok(template)

(***************************************************************************)
(* SpecRender: render_template applied to string templates, over scopes    *)
(* whose variables are unbound, plain, or reference one another.           *)
(***************************************************************************)
NVars == 4

VarNames == <<"X1", "X2", "X3", "X4", "X5", "X6">>

ScopeVars == { VarNames[i] : i \in 1..NVars }

VarIndex(name) == CHOOSE i \in DOMAIN VarNames : VarNames[i] = name

\* The plain text value the model gives variable number i.
PlainText(i) == StrV(Chars(<<"v", DigitChars[i + 1]>>))

\* '{{ name }}'
Ref(name) == StrV(<<Expr("var", name)>>)

\* What a variable may hold: plain text, a plain int, or a reference.
VarValues(name) ==
    { PlainText(VarIndex(name)), IntV(VarIndex(name)) } \cup { Ref(n) : n \in ScopeVars }

\* The scopes: every subset of the variables bound, each to one of its values.
Scopes ==
    UNION { { f \in [D -> UNION { VarValues(n) : n \in D }] :
                \A n \in D : f[n] \in VarValues(n) } : D \in SUBSET ScopeVars }

Suffix == Chars(<<"-", "v", "1">>)

\* The string templates: '{{ X }}', '{{ X }}-v1', 'v1-v1', '{{ omit }}',
\* '{{ X | default(omit) }}' and '{{ X | output_int }}'.
StringTemplates ==
    { StrV(<<Expr("var", n)>>) : n \in {VarNames[1], VarNames[2]} }
    \cup { StrV(<<Expr("var", VarNames[1])>> \o Suffix),
           StrV(Chars(<<"v", "1">>) \o Suffix),
           StrV(<<Expr("omit", "")>>),
           StrV(<<Expr("default_omit", VarNames[1])>>),
           StrV(<<Expr("output_int", VarNames[1])>>) }

RenderCall(template, args) == [template |-> template, args |-> args]

RenderInit ==
    /\ pc = "call"
    /\ \E template \in StringTemplates : \E args \in Scopes :
          call = RenderCall(template, args)
    /\ ret = None
    /\ deploy_config = <<>>
    /\ app_idx = 0
    /\ plugin_idx = 0
    /\ events = <<>>
    /\ exit_status = -1

\* render_template(template, args) returns or raises.
call_render_template ==
    /\ pc = "call"
    /\ ret' = render_template(call.template, call.args)
    /\ pc' = "rendered"
    /\ UNCHANGED <<deploy_config, app_idx, plugin_idx, events, exit_status, call>>

RenderNext == call_render_template

SpecRender == RenderInit /\ [][RenderNext]_vars

(***************************************************************************)
(* SpecNested: render_template applied to strings, sequences and mappings, *)
(* nested two deep.                                                        *)
(***************************************************************************)
MaxLen == 2

ListV(elements) == [t |-> "list", v |-> elements]

DictV(entries) == [t |-> "dict", v |-> entries]

Keys == <<"k1", "k2", "k3", "k4">>

\* The mapping with keys k1, k2, ... and the given values, in that order.
DictOf(values) == DictV([i \in DOMAIN values |-> [key |-> Keys[i], val |-> values[i]]])

\* The scopes of the nested templates: X, N and B bound, Y bound or not.
NestedScopes ==
    LET base == [X |-> StrV(Chars(<<"v", "1">>)), N |-> IntV(5), B |-> BoolV(TRUE)]
    IN  { base,
          [X |-> base.X, N |-> base.N, B |-> base.B, Y |-> StrV(Chars(<<"v", "2">>))] }

\* The leaves: 'a', '{{ X }}', OMIT_TOKEN itself, '{{ omit }}',
\* '{{ Y | default(omit) }}', '{{ N | output_int }}', '{{ B | output_bool }}'
\* and the int 7.
Leaves ==
    { StrV(Chars(<<"a">>)),
      StrV(<<Expr("var", "X")>>),
      OMIT_TOKEN,
      StrV(<<Expr("omit", "")>>),
      StrV(<<Expr("default_omit", "Y")>>),
      StrV(<<Expr("output_int", "N")>>),
      StrV(<<Expr("output_bool", "B")>>),
      IntV(7) }

InnerLeaves ==
    { StrV(<<Expr("omit", "")>>), OMIT_TOKEN, StrV(<<Expr("output_int", "N")>>) }

\* The containers nested inside others: up to two inner leaves.
InnerContainers ==
    LET seqs == { <<>> } \cup { <<x>> : x \in InnerLeaves }
                   \cup { <<x, y>> : x \in InnerLeaves, y \in InnerLeaves }
    IN  { ListV(q) : q \in seqs } \cup { DictOf(q) : q \in seqs }

Elements == Leaves \cup InnerContainers

ElementSeqs == { <<>> } \cup SeqsUpTo(Elements, MaxLen)

NestedTemplates ==
    Leaves \cup { ListV(q) : q \in ElementSeqs } \cup { DictOf(q) : q \in ElementSeqs }

NestedInit ==
    /\ pc = "call"
    /\ \E template \in NestedTemplates : \E args \in NestedScopes :
          call = RenderCall(template, args)
    /\ ret = None
    /\ deploy_config = <<>>
    /\ app_idx = 0
    /\ plugin_idx = 0
    /\ events = <<>>
    /\ exit_status = -1

SpecNested == NestedInit /\ [][RenderNext]_vars

(***************************************************************************)
(* SpecFixup: the output_* filters and type_fixup applied to literals, to  *)
(* texts and to native values.                                             *)
(***************************************************************************)
MaxPieces == 4

\* The texts type_fixup is given are written with these pieces.
Pieces ==
    { Mark("int"), Mark("float"), Mark("bool"), Mark("foo"), Chars(US),
      Chars(<<"5">>), Chars(<<"-">>), Chars(<<".">>),
      Chars(<<"T", "r", "u", "e">>), Chars(<<"\n">>) }

RECURSIVE Texts(_)
Texts(n) ==
    IF n = 0 THEN { <<>> }
    ELSE LET shorter == Texts(n - 1)
         IN  shorter \cup { x \o y : x \in shorter, y \in Pieces }

IntLiterals == { IntV(n) : n \in {-10, -1, 0, 7, 42, 105} }

FloatLiterals ==
    { FloatV(-15, 1), FloatV(0, 0), FloatV(5, 1), FloatV(2, 0), FloatV(1025, 2),
      FloatV(-3, 2), FloatV(120, 0) }

BoolLiterals == { BoolV(TRUE), BoolV(FALSE) }

Literals(t) ==
    CASE t = "int" -> IntLiterals
      [] t = "float" -> FloatLiterals
      [] OTHER -> BoolLiterals

MarkerTypes == {"int", "float", "bool"}

\* The matching output_<t> filter.
output_filter(t, arg) ==
    CASE t = "int" -> filter_output_int(arg)
      [] t = "float" -> filter_output_float(arg)
      [] OTHER -> filter_output_bool(arg)

FixupCall(t, lit, arg) == [t |-> t, lit |-> lit, arg |-> arg, prev |-> None]

FixupInit ==
    /\ \/ /\ pc = "filter"
          /\ \E t \in MarkerTypes : \E lit \in Literals(t) : call = FixupCall(t, lit, None)
       \/ /\ pc = "fixup"
          /\ \/ \E text \in Texts(MaxPieces) : call = FixupCall("", None, StrV(text))
             \/ \E t \in MarkerTypes : \E lit \in Literals(t) : call = FixupCall("", None, lit)
    /\ ret = None
    /\ deploy_config = <<>>
    /\ app_idx = 0
    /\ plugin_idx = 0
    /\ events = <<>>
    /\ exit_status = -1

\* {{ lit | output_<t> }}: the filter wraps the literal.
apply_output_filter ==
    /\ pc = "filter"
    /\ call' = [call EXCEPT !.arg = output_filter(call.t, call.lit)]
    /\ pc' = "fixup"
    /\ UNCHANGED <<deploy_config, app_idx, plugin_idx, events, exit_status, ret>>

\* type_fixup(value)
apply_type_fixup ==
    /\ pc = "fixup"
    /\ ret' = type_fixup(call.arg)
    /\ pc' = "fixed"
    /\ UNCHANGED <<deploy_config, app_idx, plugin_idx, events, exit_status, call>>

\* type_fixup(type_fixup(value)), when the first call returned.
apply_type_fixup_again ==
    /\ pc = "fixed"
    /\ ret.err = ""
    /\ call' = [call EXCEPT !.prev = ret]
    /\ ret' = type_fixup(ret.val)
    /\ pc' = "refixed"
    /\ UNCHANGED <<deploy_config, app_idx, plugin_idx, events, exit_status>>

FixupNext ==
    \/ apply_output_filter
    \/ apply_type_fixup
    \/ apply_type_fixup_again

SpecFixup == FixupInit /\ [][FixupNext]_vars

(***************************************************************************)
(* template.py : evaluate_condition                                        *)
(***************************************************************************)

\* The truth value Jinja gives a value in {% if ... %}.
Truthy(value) ==
    CASE value.t = "bool" -> value.v
      [] value.t = "int" -> value.v # 0
      [] value.t = "str" -> value.v # <<>>
      [] value.t = "list" -> value.v # <<>>
      [] value.t = "dict" -> value.v # <<>>
      [] OTHER -> FALSE

HasKey(dict, key) == \E i \in DOMAIN dict.v : dict.v[i].key = key

\* dict[key], and jinja2.Undefined for a key the mapping lacks (attribute
\* lookup in an expression).
DictGet(dict, key) ==
    IF HasKey(dict, key)
    THEN dict.v[CHOOSE i \in DOMAIN dict.v : dict.v[i].key = key].val
    ELSE Undefined

\* name == n, for an int n.
NameEquals(name, n, tmp_vars) ==
    LET value == Resolve(name, tmp_vars)
    IN  value.t = "int" /\ value.v = n

\* name > n, for an int n (an unbound name compares false here).
NameGreater(name, n, tmp_vars) ==
    LET value == Resolve(name, tmp_vars)
    IN  value.t = "int" /\ value.v > n

\* The condition expressions the model's entries are written with.
Cond(text) == StrV(<<Text(text)>>)

\* The value of the condition expression in the scope.
EvalCondExpr(text, tmp_vars) ==
    CASE text = "fetch_index == 0" -> NameEquals("fetch_index", 0, tmp_vars)
      [] text = "fetch_index > 0" -> NameGreater("fetch_index", 0, tmp_vars)
      [] text = "fetch.extract" ->
            /\ Resolve("fetch", tmp_vars).t = "dict"
            /\ Truthy(DictGet(Resolve("fetch", tmp_vars), "extract"))
      [] text = "label_index == 0" -> NameEquals("label_index", 0, tmp_vars)
      [] text = "label_index > 0" -> NameGreater("label_index", 0, tmp_vars)
      [] text = "port_index == 0" -> NameEquals("port_index", 0, tmp_vars)
      [] text = "ACTIVE" -> Truthy(Resolve("ACTIVE", tmp_vars))
      [] OTHER -> FALSE

\* Template.evaluate_condition(condition, tmp_vars): the rendering of
\* '{% if <condition> %}True{% else %}False{% endif %}' is 'True'.
evaluate_condition(condition, tmp_vars) ==
    LET rendered == IF EvalCondExpr(condition.v[1].s, tmp_vars)
                    THEN Chars(<<"T", "r", "u", "e">>)
                    ELSE Chars(<<"F", "a", "l", "s", "e">>)
    IN  rendered = Chars(<<"T", "r", "u", "e">>)

(***************************************************************************)
(* output/marathon.py : build_fetch_config and build_port_mappings         *)
(***************************************************************************)

\* dict.update: the bindings of g added to f, replacing those f has.
Update(f, g) ==
    [k \in DOMAIN f \cup DOMAIN g |-> IF k \in DOMAIN g THEN g[k] ELSE f[k]]

\* del dict[key]
DictDel(dict, key) ==
    LET Other(entry) == entry.key # key
    IN  DictV(SelectSeq(dict.v, Other))

\* dict[key] = val on the entries of a mapping: an existing key keeps its
\* place and takes the value, a new key goes last.
DictSet(entries, key, val) ==
    IF \E i \in DOMAIN entries : entries[i].key = key
    THEN [i \in DOMAIN entries |->
            IF entries[i].key = key THEN [key |-> key, val |-> val] ELSE entries[i]]
    ELSE Append(entries, [key |-> key, val |-> val])

\* The loop of build_fetch_config from the i-th entry on (i counts from 1,
\* fetch_index from 0): the entries kept, without their condition.
RECURSIVE FetchLoop(_, _, _)
FetchLoop(fetches, i, app_vars) ==
    IF i > Len(fetches) THEN <<>>
    ELSE LET fetch == fetches[i]
             tmp_vars == Update(app_vars,
                                [fetch |-> fetch, fetch_index |-> IntV(i - 1)])
             rest == FetchLoop(fetches, i + 1, app_vars)
         IN  IF \/ ~HasKey(fetch, "condition")
                \/ evaluate_condition(DictGet(fetch, "condition"), tmp_vars)
             THEN <<IF HasKey(fetch, "condition")
                    THEN DictDel(fetch, "condition")
                    ELSE fetch>> \o rest
             ELSE rest

\* build_fetch_config(app_vars, data): data as the call leaves it.
\* A faulty build_fetch_config: data['fetch'] is set even when it is empty.
build_fetch_config_always(app_vars, data) ==
    Update(data, [fetch |-> ListV(FetchLoop(DictGet(app_vars["APP"], "fetch").v, 1, app_vars))])

build_fetch_config(app_vars, data) ==
    LET fetch_config == FetchLoop(DictGet(app_vars["APP"], "fetch").v, 1, app_vars)
    IN  IF fetch_config # <<>>
        THEN Update(data, [fetch |-> ListV(fetch_config)])
        ELSE data

\* int(value) of an int or of a text.
PyInt(value) ==
    IF value.t = "int" THEN Ok(value)
    ELSE IF IsStr(value) THEN ParseInt(value.v)
    ELSE Raise("TypeError")

\* tmp_port before it is rendered: the protocol, the port numbers that are
\* not None as ints, and the labels when there are any.
TmpPort(port, port_labels) ==
    LET fields == <<"container_port", "host_port", "service_port">>
        present == SelectSeq(fields, LAMBDA f : DictGet(port, f) # None)
        numbers == [i \in DOMAIN present |->
                      [key |-> present[i], val |-> PyInt(DictGet(port, present[i])).val]]
        labels == IF port_labels # <<>>
                  THEN <<[key |-> "labels", val |-> DictV(port_labels)]>>
                  ELSE <<>>
    IN  DictV(<<[key |-> "protocol", val |-> DictGet(port, "protocol")]>>
              \o numbers \o labels)

(***************************************************************************)
(* SpecMarathon: build_fetch_config as one call, build_port_mappings step  *)
(* by step (one port, one label at a time).                                *)
(***************************************************************************)
MaxEntries == 2

Name1 == StrV(Chars(<<"n", "1">>))

Name2 == StrV(Chars(<<"n", "2">>))

Value1 == StrV(Chars(<<"v", "1">>))

Uri1 == StrV(Chars(<<"u", "1">>))

Uri2 == StrV(Chars(<<"u", "2">>))

\* A mapping from its entries; an entry with value None-for-absent is left out.
Absent == [t |-> "absent", v |-> 0]

Entry(key, val) == [key |-> key, val |-> val]

DictWith(entries) ==
    LET Given(entry) == entry.val # Absent
    IN  DictV(SelectSeq(entries, Given))

FetchConditions ==
    { Absent, Cond("fetch_index == 0"), Cond("fetch_index > 0"),
      Cond("fetch.extract"), Cond("ACTIVE") }

FetchEntries ==
    { DictWith(<<Entry("uri", u), Entry("extract", BoolV(x)), Entry("condition", c)>>) :
        u \in {Uri1, Uri2}, x \in BOOLEAN, c \in FetchConditions }

LabelNames == { Name1, Name2, StrV(<<Expr("var", "NAME")>>) }

LabelValues ==
    { Value1, StrV(<<Expr("omit", "")>>), StrV(<<Expr("output_int", "label_index")>>) }

LabelConditions == { Absent, Cond("label_index == 0"), Cond("label_index > 0") }

Labels ==
    { DictWith(<<Entry("name", n), Entry("value", v), Entry("condition", c)>>) :
        n \in LabelNames, v \in LabelValues, c \in LabelConditions }

Port(protocol, labels) ==
    DictV(<<Entry("container_port", IntV(80)), Entry("host_port", IntV(0)),
            Entry("service_port", None), Entry("protocol", protocol),
            Entry("labels", ListV(labels))>>)

Tcp == StrV(Chars(<<"t", "c", "p">>))

\* The ports that may follow the first one.
LaterPorts ==
    { Port(Tcp, <<>>),
      Port(Tcp, <<DictWith(<<Entry("name", Name2),
                             Entry("value", StrV(<<Expr("output_int", "port_index")>>))>>)>>) }

PortLists ==
    { <<Port(Tcp, labels)>> \o later :
        labels \in { <<>> } \cup SeqsUpTo(Labels, MaxEntries),
        later \in { <<>> } \cup { <<p>> : p \in LaterPorts } }

AppVars(fetches, ports, enabled) ==
    [ APP |-> DictV(<<Entry("fetch", ListV(fetches)), Entry("ports", ListV(ports))>>),
      ACTIVE |-> BoolV(enabled),
      NAME |-> Name1 ]

\* data when the build_* helpers are called: the basic structure.
BasicData == [id |-> StrV(<<Expr("var", "APP.id")>>)]

MarathonCall(fn, app_vars) ==
    [ fn |-> fn, app_vars |-> app_vars, data |-> BasicData,
      tmp_vars |-> app_vars, port_index |-> 0, label_index |-> 0,
      port_labels |-> <<>>, port_mappings |-> <<>> ]

MarathonInit ==
    /\ \/ /\ pc = "fetch_call"
          /\ \E fetches \in { <<>> } \cup SeqsUpTo(FetchEntries, MaxEntries) :
             \E enabled \in BOOLEAN :
                call = MarathonCall("build_fetch_config", AppVars(fetches, <<>>, enabled))
       \/ /\ pc = "ports_loop"
          /\ \E ports \in { <<>> } \cup PortLists :
                call = MarathonCall("build_port_mappings", AppVars(<<>>, ports, TRUE))
    /\ ret = None
    /\ deploy_config = <<>>
    /\ app_idx = 0
    /\ plugin_idx = 0
    /\ events = <<>>
    /\ exit_status = -1

otherVars == <<deploy_config, app_idx, plugin_idx, events, exit_status>>

\* build_fetch_config(app_vars, data)
call_build_fetch_config ==
    /\ pc = "fetch_call"
    /\ ret' = Ok(build_fetch_config(call.app_vars, call.data))
    /\ pc' = "built"
    /\ UNCHANGED <<otherVars, call>>

PortsOf(app_vars) == DictGet(app_vars["APP"], "ports").v

CurrentPort == PortsOf(call.app_vars)[call.port_index + 1]

CurrentLabels == DictGet(CurrentPort, "labels").v

\* build_port_mappings, the head of one iteration of the port loop:
\* tmp_vars.update(dict(port=port, port_index=port_index)); port_labels = {}
port_begin ==
    /\ pc = "ports_loop"
    /\ call.port_index < Len(PortsOf(call.app_vars))
    /\ call' = [call EXCEPT
                  !.tmp_vars = Update(@, [port |-> CurrentPort,
                                          port_index |-> IntV(call.port_index)]),
                  !.port_labels = <<>>,
                  !.label_index = 0]
    /\ pc' = "labels_loop"
    /\ UNCHANGED <<otherVars, ret>>

\* port_labels[<name>] = <value>: the loop goes on, unless a rendering raised.
LabelSet(tmp_vars, name, value) ==
    IF name.err # "" \/ value.err # ""
    THEN /\ ret' = IF name.err # "" THEN name ELSE value
         /\ pc' = "raised"
         /\ call' = [call EXCEPT !.tmp_vars = tmp_vars]
    ELSE /\ call' = [call EXCEPT
                       !.tmp_vars = tmp_vars,
                       !.port_labels = DictSet(@, name.val, value.val),
                       !.label_index = @ + 1]
         /\ UNCHANGED <<pc, ret>>

\* The body of the label loop, with tmp_vars updated for the label.
LabelBody(label, tmp_vars) ==
    IF \/ ~HasKey(label, "condition")
       \/ evaluate_condition(DictGet(label, "condition"), tmp_vars)
    THEN LabelSet(tmp_vars,
                  render_template(DictGet(label, "name"), tmp_vars),
                  render_template(DictGet(label, "value"), tmp_vars))
    ELSE /\ call' = [call EXCEPT !.tmp_vars = tmp_vars, !.label_index = @ + 1]
         /\ UNCHANGED <<pc, ret>>

\* build_port_mappings, one iteration of the label loop.
label_step ==
    /\ pc = "labels_loop"
    /\ call.label_index < Len(CurrentLabels)
    /\ LabelBody(CurrentLabels[call.label_index + 1],
                 Update(call.tmp_vars,
                        [label |-> CurrentLabels[call.label_index + 1],
                         label_index |-> IntV(call.label_index)]))
    /\ UNCHANGED otherVars

\* tmp_port is appended and the port loop goes on, unless the rendering raised.
PortAppend(tmp_port) ==
    IF tmp_port.err # ""
    THEN /\ ret' = tmp_port
         /\ pc' = "raised"
         /\ UNCHANGED call
    ELSE /\ call' = [call EXCEPT
                       !.port_mappings = Append(@, tmp_port.val),
                       !.port_index = @ + 1]
         /\ pc' = "ports_loop"
         /\ UNCHANGED ret

\* build_port_mappings, the tail of one iteration of the port loop: the
\* labels are attached, tmp_port is rendered and appended.
port_end ==
    /\ pc = "labels_loop"
    /\ call.label_index = Len(CurrentLabels)
    /\ PortAppend(render_template(TmpPort(CurrentPort, call.port_labels), call.tmp_vars))
    /\ UNCHANGED otherVars

\* build_port_mappings, after the loop:
\* if port_mappings: data['container']['docker']['portMappings'] = port_mappings
ports_finish ==
    /\ pc = "ports_loop"
    /\ call.port_index = Len(PortsOf(call.app_vars))
    /\ ret' = Ok(IF call.port_mappings # <<>>
                 THEN Update(call.data, [portMappings |-> ListV(call.port_mappings)])
                 ELSE call.data)
    /\ pc' = "built"
    /\ UNCHANGED <<otherVars, call>>

MarathonNext ==
    \/ call_build_fetch_config
    \/ port_begin
    \/ label_step
    \/ port_end
    \/ ports_finish

SpecMarathon == MarathonInit /\ [][MarathonNext]_vars

(***************************************************************************)
(* Claims about the driving loop.                                          *)
(***************************************************************************)
AppIndices == DOMAIN deploy_config

HasUnknownField(i) == InvalidPositions(deploy_config[i]) # {}

ValidationErrorReported(i) ==
    \E k \in DOMAIN events :
        events[k].ev = "deploy_config_error" /\ events[k].app = i

GenerationErrorReported(i, plugin) ==
    \E k \in DOMAIN events : events[k] = Event("generation_error", i, plugin)

GenerateInvoked(i, plugin) ==
    \E k \in DOMAIN events : events[k] = Event("generate", i, plugin)

ValidationRan(i) ==
    \E k \in DOMAIN events :
        events[k].ev \in {"validated", "deploy_config_error"} /\ events[k].app = i

NeededPlugins(i) == { p \in PluginSet : is_needed(p, deploy_config[i]) }

\* C1: when the run has ended, every application with a field that no needed
\* plugin declares had an unknown-field error reported, had generate invoked
\* on no plugin, and every later application was validated and (unless it has
\* an unknown field itself) had generate invoked on each of its needed plugins.
C1_UnknownFieldSkipsGeneration ==
    pc = "exited" =>
        \A i \in AppIndices :
            HasUnknownField(i) =>
                /\ ValidationErrorReported(i)
                /\ \A p \in PluginSet : ~GenerateInvoked(i, p)
                /\ \A j \in AppIndices :
                     j > i =>
                        /\ ValidationRan(j)
                        /\ ~HasUnknownField(j) =>
                              \A p \in NeededPlugins(j) : GenerateInvoked(j, p)

\* C2: when the run has ended, for every plugin whose generate raised a
\* generation error for application i, the error was reported, generate was
\* invoked on every needed plugin registered after it for application i, and
\* on every needed plugin of every later application.
C2_GenerationErrorDoesNotStopOthers ==
    pc = "exited" =>
        \A i \in AppIndices : \A k \in DOMAIN output_plugins :
            ( /\ is_needed(output_plugins[k], deploy_config[i])
              /\ generate_raises(output_plugins[k], deploy_config[i])
              /\ GenerateInvoked(i, output_plugins[k]) ) =>
                /\ GenerationErrorReported(i, output_plugins[k])
                /\ \A k2 \in DOMAIN output_plugins :
                     (k2 > k /\ is_needed(output_plugins[k2], deploy_config[i]))
                        => GenerateInvoked(i, output_plugins[k2])
                /\ \A j \in AppIndices :
                     j > i => \A p \in NeededPlugins(j) : GenerateInvoked(j, p)

AnyErrorReported ==
    \E k \in DOMAIN events :
        events[k].ev \in {"deploy_config_error", "generation_error"}

\* C3: when the run has ended, the exit status is non-zero if and only if a
\* validation error or a generation error was reported during the run.
C3_ExitStatusReflectsErrors ==
    pc = "exited" => (exit_status # 0 <=> AnyErrorReported)

(***************************************************************************)
(* Claims about type_fixup and the output_* filters.                       *)
(***************************************************************************)
IsWord(items) ==
    items # <<>> /\ \A i \in DOMAIN items : IsLowerAt(items, i)

\* The text is __TYPE__<payload>__TYPE__ for some word TYPE, the same on
\* both sides, and some payload.
IsMarkerText(items) ==
    \E n \in 1..Len(items) :
        /\ Len(items) >= 2 * (n + 4)
        /\ LET type == SubSeq(items, 3, n + 2)
               side == Chars(US) \o type \o Chars(US)
           IN  /\ IsWord(type)
               /\ SubSeq(items, 1, n + 4) = side
               /\ SubSeq(items, Len(items) - n - 3, Len(items)) = side

IsMarker(value) == IsStr(value) /\ IsMarkerText(value.v)

\* The text is a marker, or a marker followed by one newline.
IsMarkerOrMarkerNewline(value) ==
    \/ IsMarker(value)
    \/ /\ IsStr(value)
       /\ IsCharAt(value.v, Len(value.v), "\n")
       /\ IsMarkerText(SubSeq(value.v, 1, Len(value.v) - 1))

RoundTrip ==
    (pc = "fixed" /\ call.lit # None) => ret = Ok(call.lit)

Idempotent ==
    pc = "refixed" => ret = call.prev

\* C7 (as claimed): type_fixup of the matching filter's output on a literal is
\* the literal's native value; every value that is not a marker text comes
\* back unchanged; and a second type_fixup changes nothing.
C7_AsClaimed ==
    /\ RoundTrip
    /\ (pc = "fixed" /\ ~IsMarker(call.arg)) => ret = Ok(call.arg)
    /\ Idempotent

\* The text is __t__<payload>__t__ with a payload that has no newline.
IsLineMarkerOf(items, t) ==
    /\ Len(items) >= 2 * Len(Mark(t))
    /\ SubSeq(items, 1, Len(Mark(t))) = Mark(t)
    /\ SubSeq(items, Len(items) - Len(Mark(t)) + 1, Len(items)) = Mark(t)
    /\ \A i \in DOMAIN items : ~IsCharAt(items, i, "\n")

\* An int, float or bool marker, its payload without a newline, followed by
\* one trailing newline.
IsMarkerNewline(value) ==
    /\ IsStr(value)
    /\ IsCharAt(value.v, Len(value.v), "\n")
    /\ \E t \in MarkerTypes : IsLineMarkerOf(SubSeq(value.v, 1, Len(value.v) - 1), t)

\* Such a text has the outcome of the marker without the newline.
NewlineAsMarker ==
    (pc = "fixed" /\ IsMarkerNewline(call.arg)) =>
        ret = type_fixup(StrV(SubSeq(call.arg.v, 1, Len(call.arg.v) - 1)))

\* C7 (amended): as claimed, except that an int, float or bool marker followed
\* by one trailing newline is converted like the marker itself; every value
\* that is neither a marker text nor a marker text followed by one newline
\* comes back unchanged.
C7_RoundTripUnchangedIdempotent ==
    /\ RoundTrip
    /\ (pc = "fixed" /\ ~IsMarkerOrMarkerNewline(call.arg)) => ret = Ok(call.arg)
    /\ NewlineAsMarker
    /\ Idempotent

\* A float literal went through its filter and type_fixup twice.
C7_Witness ==
    /\ pc = "refixed"
    /\ call.lit = FloatV(1025, 2)
    /\ call.arg = StrV(Mark("float") \o Chars(<<"1", "0", ".", "2", "5">>) \o Mark("float"))
    /\ ret = Ok(FloatV(1025, 2))

\* A text that is not a marker came back unchanged, twice.
C7_WitnessUnchanged ==
    /\ pc = "refixed"
    /\ call.arg = StrV(Mark("int") \o Chars(<<"5">>) \o Mark("float"))
    /\ ret = Ok(call.arg)

(***************************************************************************)
(* Claims about rendering string templates.                                *)
(***************************************************************************)
IsRef(value) ==
    IsStr(value) /\ Len(value.v) = 1 /\ value.v[1].k = "var"

\* Follow the references from variable `name`: the chain ends at a plain
\* value after `len` variables, at an unbound variable, or never (a cycle:
\* more variables were followed than there are).
RECURSIVE Walk(_, _, _)
Walk(name, args, len) ==
    IF name \notin DOMAIN args
    THEN [kind |-> "undefined", len |-> len, value |-> Undefined]
    ELSE IF ~IsRef(args[name])
    THEN [kind |-> "plain", len |-> len, value |-> args[name]]
    ELSE IF len > NVars
    THEN [kind |-> "cycle", len |-> len, value |-> Undefined]
    ELSE Walk(args[name].v[1].s, args, len + 1)

\* The variable the template's first expression names, "" when it has none.
TemplateVar(template) ==
    LET es == { i \in DOMAIN template.v :
                    ~IsLiteral(template.v[i]) /\ template.v[i].k # "omit" }
    IN  IF es = {} THEN "" ELSE template.v[Min(es)].s

Chain == Walk(TemplateVar(call.template), call.args, 1)

ReferencesCycle ==
    TemplateVar(call.template) # "" /\ Chain.kind = "cycle"

\* C4: rendering a template that references a variable whose value references
\* itself, directly or through other variables, ends by failing with the
\* dedicated rendering-depth-exceeded error.
C4_CycleFailsWithDepthExceeded ==
    (pc = "rendered" /\ ReferencesCycle) => ret.err = "RenderingDepthExceededError"

\* What the code does on a cycle: the recursion runs until the interpreter
\* raises RecursionError.
CycleEndsInRecursionError ==
    (pc = "rendered" /\ ReferencesCycle) => ret.err = "RecursionError"

\* C8: rendering '{{ X1 }}' where X1 .. XN is a chain of references that ends
\* at a plain value, N within the recursion bound, returns the text of XN's
\* value, and the text holds no reference.
C8_ChainResolves ==
    ( /\ pc = "rendered"
      /\ IsRef(call.template)
      /\ Chain.kind = "plain"
      /\ Chain.len <= RecursionLimit ) =>
        /\ ret = Ok(StrV(ToStr(Chain.value)))
        /\ ~HasTemplate(ret.val.v)

\* '{{ X1 }}' with X1 -> X2 -> X3 and X3 plain text rendered to X3's text.
C8_Witness ==
    /\ pc = "rendered"
    /\ call.template = Ref(VarNames[1])
    /\ Chain.kind = "plain"
    /\ Chain.len = 3
    /\ call.args[VarNames[1]] = Ref(VarNames[2])
    /\ call.args[VarNames[2]] = Ref(VarNames[3])
    /\ ret = Ok(PlainText(3))

\* A chain longer than the recursion bound fails.
LongChainFails ==
    ( /\ pc = "rendered"
      /\ IsRef(call.template)
      /\ Chain.kind = "plain"
      /\ Chain.len > RecursionLimit ) => ret.err = "RecursionError"

\* The template has a plain {{ X }} expression (no default) whose variable,
\* or the variable its chain of references leads to, is not in the scope.
ReferencesUndefined ==
    /\ \E i \in DOMAIN call.template.v : call.template.v[i].k = "var"
    /\ Chain.kind = "undefined"
    /\ Chain.len <= RecursionLimit

\* C10: rendering a string template that references a variable absent from
\* the scope, with no default, fails with an undefined-variable error.
C10_UndefinedVariableFails ==
    (pc = "rendered" /\ ReferencesUndefined) => ret.err = "UndefinedError"

\* What the code does: the reference renders as the empty text.
UndefinedRendersEmpty ==
    ( /\ pc = "rendered"
      /\ ReferencesUndefined
      /\ call.template = StrV(<<Expr("var", VarNames[1])>> \o Suffix) ) =>
        ret = Ok(StrV(Suffix))

(***************************************************************************)
(* Claims about rendering nested structures.                               *)
(***************************************************************************)
IsContainer(value) == value.t = "list" \/ value.t = "dict"

\* The values directly inside a container.
Members(value) ==
    IF value.t = "list" THEN { value.v[i] : i \in DOMAIN value.v }
    ELSE IF value.t = "dict" THEN { value.v[i].val : i \in DOMAIN value.v }
    ELSE {}

\* The value, and every value nested in it.
RECURSIVE Within(_)
Within(value) == {value} \cup UNION { Within(m) : m \in Members(value) }

\* The text is __int__<payload>__int__, __float__<payload>__float__ or
\* __bool__<payload>__bool__.
IsTypeMarker(value) ==
    /\ IsStr(value)
    /\ \E t \in MarkerTypes :
          /\ Len(value.v) >= 2 * Len(Mark(t))
          /\ SubSeq(value.v, 1, Len(Mark(t))) = Mark(t)
          /\ SubSeq(value.v, Len(value.v) - Len(Mark(t)) + 1, Len(value.v)) = Mark(t)

\* C5: after render_template returns, for a string, a mapping or a sequence,
\* no string in the result, the result itself included, is a type marker.
C5_NoTypeMarkerInResult ==
    (pc = "rendered" /\ ret.err = "") =>
        \A value \in Within(ret.val) : ~IsTypeMarker(value)

\* What the code does: the strings inside a rendered mapping or sequence are
\* not type markers; a bare string is returned as rendered.
NoTypeMarkerInsideContainers ==
    (pc = "rendered" /\ ret.err = "" /\ IsContainer(call.template)) =>
        \A value \in Within(ret.val) : ~IsTypeMarker(value)

\* The template value is the sentinel, or a string that renders to it.
IsOmitted(value, args) ==
    \/ IsOmit(value)
    \/ IsStr(value) /\ RenderString(value.v, args) = Ok(OMIT_TOKEN)

\* The positions of the container's entries that are not omitted.
Surviving(template, args) ==
    { i \in DOMAIN template.v :
        ~IsOmitted(IF template.t = "dict" THEN template.v[i].val ELSE template.v[i], args) }

\* The i-th smallest element of a set of numbers.
RECURSIVE Nth(_, _)
Nth(S, i) == IF i = 1 THEN Min(S) ELSE Nth(S \ {Min(S)}, i - 1)

\* C6: the rendered mapping or sequence holds the omit sentinel nowhere,
\* whether it was given literally or produced by an expression; the entries
\* that are not omitted are all there, in their order, under their keys.
C6_OmitNeverInResult ==
    (pc = "rendered" /\ ret.err = "" /\ IsContainer(call.template)) =>
        /\ \A value \in Within(ret.val) : ~IsOmit(value)
        /\ LET keep == Surviving(call.template, call.args)
           IN  /\ Len(ret.val.v) = Cardinality(keep)
               /\ call.template.t = "dict" =>
                     \A i \in DOMAIN ret.val.v :
                        ret.val.v[i].key = call.template.v[Nth(keep, i)].key

\* What the code does: only the entries whose template value is literally
\* the sentinel are dropped.
PositionsNotLiterallyOmit(template) ==
    { i \in DOMAIN template.v :
        ~IsOmit(IF template.t = "dict" THEN template.v[i].val ELSE template.v[i]) }

LiteralOmitDropped ==
    (pc = "rendered" /\ ret.err = "" /\ IsContainer(call.template)) =>
        LET keep == PositionsNotLiterallyOmit(call.template)
        IN  /\ Len(ret.val.v) = Cardinality(keep)
            /\ call.template.t = "dict" =>
                  \A i \in DOMAIN ret.val.v :
                     ret.val.v[i].key = call.template.v[Nth(keep, i)].key

(***************************************************************************)
(* Claims about build_fetch_config and build_port_mappings.                *)
(***************************************************************************)
Fetches == DictGet(call.app_vars["APP"], "fetch").v

\* The fetch entry has no condition, or its condition is true with the entry
\* and its index bound as fetch and fetch_index.
FetchPasses(i) ==
    \/ ~HasKey(Fetches[i], "condition")
    \/ evaluate_condition(DictGet(Fetches[i], "condition"),
                          Update(call.app_vars,
                                 [fetch |-> Fetches[i], fetch_index |-> IntV(i - 1)]))

FetchKept == { i \in DOMAIN Fetches : FetchPasses(i) }

\* The entries of a mapping other than its condition.
OtherThanCondition(dict) ==
    LET keep == { i \in DOMAIN dict.v : dict.v[i].key # "condition" }
    IN  [j \in 1..Cardinality(keep) |-> dict.v[Nth(keep, j)]]

\* data['fetch'] holds exactly the entries that pass, in their order and
\* without their condition; it is not set when none passes.
FetchOutputExact ==
    (pc = "built" /\ call.fn = "build_fetch_config") =>
        IF FetchKept = {}
        THEN "fetch" \notin DOMAIN ret.val
        ELSE /\ "fetch" \in DOMAIN ret.val
             /\ Len(ret.val["fetch"].v) = Cardinality(FetchKept)
             /\ \A j \in DOMAIN ret.val["fetch"].v :
                   /\ ret.val["fetch"].v[j].v = OtherThanCondition(Fetches[Nth(FetchKept, j)])
                   /\ ~HasKey(ret.val["fetch"].v[j], "condition")

Ports == PortsOf(call.app_vars)

LabelsOf(p) == DictGet(Ports[p], "labels").v

\* The scope of label j of port p: the port, the label and their indexes.
LabelScope(p, j) ==
    Update(call.app_vars,
           [port |-> Ports[p], port_index |-> IntV(p - 1),
            label |-> LabelsOf(p)[j], label_index |-> IntV(j - 1)])

LabelPasses(p, j) ==
    \/ ~HasKey(LabelsOf(p)[j], "condition")
    \/ evaluate_condition(DictGet(LabelsOf(p)[j], "condition"), LabelScope(p, j))

LabelsKept(p) == { j \in DOMAIN LabelsOf(p) : LabelPasses(p, j) }

RenderedName(p, j) == RenderString(DictGet(LabelsOf(p)[j], "name").v, LabelScope(p, j)).val

RenderedValue(p, j) == RenderString(DictGet(LabelsOf(p)[j], "value").v, LabelScope(p, j)).val

\* The labels of generated port mapping p, as entries; none when not set.
OutLabels(p) ==
    LET out == ret.val["portMappings"].v[p]
    IN  IF HasKey(out, "labels") THEN DictGet(out, "labels").v ELSE <<>>

LabelsKeySet(p) == HasKey(ret.val["portMappings"].v[p], "labels")

PortsBuilt ==
    pc = "built" /\ call.fn = "build_port_mappings" /\ Ports # <<>>

\* The labels of every generated port are exactly the labels that pass, in
\* their order, each under its rendered name with its rendered value; the
\* labels key is not set when none passes.
LabelOutputExact ==
    PortsBuilt =>
        \A p \in DOMAIN Ports :
            /\ LabelsKeySet(p) <=> LabelsKept(p) # {}
            /\ Len(OutLabels(p)) = Cardinality(LabelsKept(p))
            /\ \A i \in DOMAIN OutLabels(p) :
                  LET j == Nth(LabelsKept(p), i)
                  IN  /\ OutLabels(p)[i].key = RenderedName(p, j)
                      /\ Ok(OutLabels(p)[i].val) = type_fixup(RenderedValue(p, j))

\* C9 (as claimed): the generated fetch list, and likewise the labels of each
\* generated port, hold exactly the entries that have no condition or whose
\* condition is true, in order, without the condition; none, no key.
C9_AsClaimed == FetchOutputExact /\ LabelOutputExact

\* Label j passes and no later passing label of the port has its rendered name.
StandsForName(p, j) ==
    /\ j \in LabelsKept(p)
    /\ \A j2 \in LabelsKept(p) : j2 > j => RenderedName(p, j2) # RenderedName(p, j)

FirstKept(p, name) == Min({ j \in LabelsKept(p) : RenderedName(p, j) = name })

\* The labels of a generated port are a mapping keyed by rendered name: each
\* entry comes from the last passing label with that name, whose value did not
\* render to the omit sentinel; every such label has its entry; the entries
\* are in the order their names first passed; no label passing, no key.
LabelOutputByName ==
    PortsBuilt =>
        \A p \in DOMAIN Ports :
            /\ LabelsKeySet(p) <=> LabelsKept(p) # {}
            /\ \A i \in DOMAIN OutLabels(p) :
                  \E j \in DOMAIN LabelsOf(p) :
                     /\ StandsForName(p, j)
                     /\ RenderedName(p, j) = OutLabels(p)[i].key
                     /\ ~IsOmit(RenderedValue(p, j))
                     /\ Ok(OutLabels(p)[i].val) = type_fixup(RenderedValue(p, j))
            /\ \A j \in DOMAIN LabelsOf(p) :
                  (StandsForName(p, j) /\ ~IsOmit(RenderedValue(p, j))) =>
                     \E i \in DOMAIN OutLabels(p) : OutLabels(p)[i].key = RenderedName(p, j)
            /\ \A i1, i2 \in DOMAIN OutLabels(p) :
                  i1 < i2 =>
                     /\ OutLabels(p)[i1].key # OutLabels(p)[i2].key
                     /\ FirstKept(p, OutLabels(p)[i1].key) < FirstKept(p, OutLabels(p)[i2].key)

\* C9 (amended): the fetch list is as claimed; the labels of a port are a
\* mapping by rendered name, so the last passing label of a name stands for it
\* and an entry whose value rendered to the omit sentinel is dropped.
C9_ConditionalEntries == FetchOutputExact /\ LabelOutputByName

\* Two fetch entries, the second guarded by 'fetch_index == 0', which is false
\* for it: only the first is generated, without a condition.
C9_Witness ==
    /\ pc = "built"
    /\ call.fn = "build_fetch_config"
    /\ Len(Fetches) = 2
    /\ ~HasKey(Fetches[1], "condition")
    /\ HasKey(Fetches[2], "condition")
    /\ DictGet(Fetches[2], "condition") = Cond("fetch_index == 0")
    /\ "fetch" \in DOMAIN ret.val
    /\ ret.val["fetch"] = ListV(<<Fetches[1]>>)

\* Two labels of one port pass and render to the same name: the port has one
\* label, with the second value.
C9_WitnessSameName ==
    /\ PortsBuilt
    /\ Len(LabelsOf(1)) = 2
    /\ LabelsKept(1) = {1, 2}
    /\ RenderedName(1, 1) = RenderedName(1, 2)
    /\ DictGet(LabelsOf(1)[1], "value") = Value1
    /\ OutLabels(1) = <<[key |-> Name1, val |-> IntV(1)]>>

(***************************************************************************)
(* Claims about the order of events in the driving loop.                   *)
(***************************************************************************)
PluginIndex(who) == CHOOSE i \in DOMAIN output_plugins : output_plugins[i] = who

IsValidation(e) == e.ev \in {"validated", "deploy_config_error"}

IsGenerate(e) == e.ev = "generate"

\* Applications appear in the order of the deploy config, none again after a
\* later one, and none beyond the one being processed.
AppsInSequence ==
    /\ \A k \in DOMAIN events : events[k].app \in 1..Len(deploy_config)
    /\ \A k1, k2 \in DOMAIN events : k1 < k2 => events[k1].app <= events[k2].app

\* The first event of every application is its field validation, which
\* happens once; so it precedes every generate call of the application.
ValidationFirst ==
    \A k \in DOMAIN events :
        IF k = 1 \/ events[k - 1].app # events[k].app
        THEN IsValidation(events[k])
        ELSE ~IsValidation(events[k])

\* The generate calls of one application are in plugin registration order.
GenerateInRegistrationOrder ==
    \A k1, k2 \in DOMAIN events :
        ( /\ k1 < k2
          /\ IsGenerate(events[k1])
          /\ IsGenerate(events[k2])
          /\ events[k1].app = events[k2].app ) =>
            PluginIndex(events[k1].who) < PluginIndex(events[k2].who)

\* A generate call directly follows the true answer of the same plugin's
\* is_needed for the same application.
GenerateDirectlyAfterIsNeeded ==
    \A k \in DOMAIN events :
        IsGenerate(events[k]) =>
            /\ k > 1
            /\ events[k - 1] = Event("is_needed_true", events[k].app, events[k].who)

\* C11: applications are processed in deploy-config order, one completely
\* before the next; within an application validation comes before any
\* generate call; generate calls are in plugin registration order; and each
\* generate call directly follows the plugin's is_needed returning true.
C11_EventOrder ==
    /\ AppsInSequence
    /\ ValidationFirst
    /\ GenerateInRegistrationOrder
    /\ GenerateDirectlyAfterIsNeeded

\* An ended run over two applications: both plugins generated for the first,
\* marathon alone for the second.
C11_Witness ==
    /\ pc = "exited"
    /\ Len(deploy_config) = 2
    /\ events = << Event("validated", 1, "-"),
                   Event("is_needed_true", 1, "dummy"),
                   Event("generate", 1, "dummy"),
                   Event("is_needed_true", 1, "marathon"),
                   Event("generate", 1, "marathon"),
                   Event("validated", 2, "-"),
                   Event("is_needed_false", 2, "dummy"),
                   Event("is_needed_true", 2, "marathon"),
                   Event("generate", 2, "marathon") >>

(***************************************************************************)
(* Claims about the loop variables of build_port_mappings.                 *)
(***************************************************************************)
\* tmp_port of the current port is about to be rendered with tmp_vars.
AtPortRender ==
    /\ call.fn = "build_port_mappings"
    /\ pc = "labels_loop"
    /\ call.label_index = Len(CurrentLabels)

HasLabelVars == "label" \in DOMAIN call.tmp_vars \/ "label_index" \in DOMAIN call.tmp_vars

\* label and label_index are a label of port number p (1-based) and its index.
LabelVarsOfPort(p) ==
    /\ "label" \in DOMAIN call.tmp_vars
    /\ "label_index" \in DOMAIN call.tmp_vars
    /\ \E j \in DOMAIN LabelsOf(p) :
          /\ call.tmp_vars["label"] = LabelsOf(p)[j]
          /\ call.tmp_vars["label_index"] = IntV(j - 1)

PortVarsCurrent ==
    /\ "port" \in DOMAIN call.tmp_vars
    /\ "port_index" \in DOMAIN call.tmp_vars
    /\ call.tmp_vars["port"] = CurrentPort
    /\ call.tmp_vars["port_index"] = IntV(call.port_index)

\* When a port is rendered, port and port_index are that port's, and label
\* and label_index are absent or a label of that port.
ScopeBelongsToPort ==
    AtPortRender =>
        /\ PortVarsCurrent
        /\ HasLabelVars => LabelVarsOfPort(call.port_index + 1)

\* No step of the function changes the caller's app_vars.
AppVarsUnchanged == call'.app_vars = call.app_vars

\* C12: whenever a port is rendered the loop variables in the scope belong to
\* that port (label and label_index absent or of a label of that port, never
\* left over from an earlier port), and app_vars is left unchanged.
C12_LoopVariablesBelongToPort ==
    [](ScopeBelongsToPort) /\ [][AppVarsUnchanged]_vars

\* What the code does: port and port_index are the rendered port's; label and
\* label_index, once set, stay in tmp_vars, so they are of the last label of
\* the nearest port, this one or an earlier one, that has labels.
ScopeOfThisOrEarlierPort ==
    AtPortRender =>
        /\ PortVarsCurrent
        /\ HasLabelVars =>
              \E p \in 1..(call.port_index + 1) :
                 /\ LabelVarsOfPort(p)
                 /\ call.tmp_vars["label"] = LabelsOf(p)[Len(LabelsOf(p))]
                 /\ \A q \in (p + 1)..(call.port_index + 1) : LabelsOf(q) = <<>>

LoopVariablesAsCoded ==
    [](ScopeOfThisOrEarlierPort) /\ [][AppVarsUnchanged]_vars

\* The second port has no labels and is rendered with the first port's label
\* still in the scope.
StaleLabelReached ==
    /\ AtPortRender
    /\ call.port_index = 1
    /\ LabelsOf(2) = <<>>
    /\ LabelVarsOfPort(1)

====
